---- MODULE Spec2Model ----
(***************************************************************************)
(* The scheduler loop of src/src/main.rs (lines 150-226): two interval     *)
(* timers drive a supply-check branch (timer1) and a buy-check branch      *)
(* (timer2) over a paginated listing gateway.  One action of the model is  *)
(* the code that runs between two suspension points (.await) of main.      *)
(* Strings are sequences of one-character strings, so that parsing is      *)
(* computed and not assumed.                                               *)
(***************************************************************************)
EXTENDS Integers, Sequences, FiniteSets, TLC

\* ------------------------------------------------------------ bounds
\* Longest item list a gateway response carries in the model (a real page
\* holds up to 50 items).
MaxItems == 2
\* The buy timer is serviced while price_index is below this cap.
MaxIndex == 7
\* The clock of the timed specification stops here (seconds).
MaxTime == 11
\* Largest --accounts value a run is started with.
MaxAccounts == 2
\* Number of process starts in the startup specification.
MaxRuns == 3

\* ------------------------------------------------------------ constants
\* page_size argument of every get_token_list call, and the divisor of the
\* page-count formula.
PageSize == 50
\* let mut price_index = 1;
InitPriceIndex == 1
\* time::interval(time::Duration::from_secs(5)) and (10)
Period1 == 5
Period2 == 10
\* const ACCOUNT_TYPE_MINT: i32 = 1; const ACCOUNT_TYPE_BUY: i32 = 2;
ACCOUNT_TYPE_MINT == 1
ACCOUNT_TYPE_BUY == 2

\* let floor_prices: Vec<u64> = vec![...]; (1-based here, 0-based in Rust)
floor_prices == <<123000000, 250000000, 450000000, 200000000, 220000000, 300000000>>

\* ------------------------------------------------------------ strings
Digits == {"0", "1", "2", "3", "4", "5", "6", "7", "8", "9"}

DigitVal(c) ==
    CASE c = "0" -> 0 [] c = "1" -> 1 [] c = "2" -> 2 [] c = "3" -> 3
      [] c = "4" -> 4 [] c = "5" -> 5 [] c = "6" -> 6 [] c = "7" -> 7
      [] c = "8" -> 8 [] c = "9" -> 9

RECURSIVE TrimLeft(_)
TrimLeft(s) ==
    IF s # <<>> /\ Head(s) = " " THEN TrimLeft(Tail(s)) ELSE s

RECURSIVE TrimRight(_)
TrimRight(s) ==
    IF s # <<>> /\ s[Len(s)] = " " THEN TrimRight(SubSeq(s, 1, Len(s) - 1)) ELSE s

RECURSIVE DecVal(_)
DecVal(s) ==
    IF s = <<>> THEN 0
    ELSE DecVal(SubSeq(s, 1, Len(s) - 1)) * 10 + DigitVal(s[Len(s)])

\* from_str::<u64>(&s): surrounding whitespace is skipped; what remains must
\* be a JSON unsigned integer: only digits, at least one, no leading zero
\* before another digit, no sign, no fraction.  (The strings of the model
\* have at most 9 digits, so the value always fits 64 bits.)
FromStrU64(s) ==
    LET t == TrimRight(TrimLeft(s))
        valid == /\ t # <<>>
                 /\ \A i \in 1..Len(t) : t[i] \in Digits
                 /\ (Len(t) > 1 => t[1] # "0")
    IN  [ok |-> valid, val |-> IF valid THEN DecVal(t) ELSE 0]

\* ------------------------------------------------------------ gateway
\* ListResponse items: the two fields the loop reads.
Items ==
    { [amount |-> <<"1","0","0","0","0">>,
       price  |-> <<"2","0","0","0","0","0","0","0","0">>],
      [amount |-> <<"8","0","0","0">>,
       price  |-> <<"3","0","0","0","0","0","0","0","0">>],
      [amount |-> <<" ","5","0","0">>,
       price  |-> <<"4","6","0","0","0","0","0","0","0">>],
      [amount |-> <<"0","1">>,
       price  |-> <<"-","1">>],
      [amount |-> <<"1","a">>,
       price  |-> <<>>] }

RECURSIVE SeqsUpTo(_, _)
SeqsUpTo(S, n) ==
    IF n = 0 THEN {<<>>}
    ELSE LET shorter == SeqsUpTo(S, n - 1)
         IN  shorter \cup {Append(q, x) : q \in shorter, x \in S}

\* Option<Vec<item>>: the data field of a response.
None == [some |-> FALSE, items |-> <<>>]
Some(items) == [some |-> TRUE, items |-> items]

Totals == {0, 30, 100, 120}

\* What a call of get_token_list resolves to: Ok(ListResponse) or Err.
Responses ==
    {[ok |-> TRUE, total |-> t, data |-> d] :
        t \in Totals,
        d \in {None} \cup {Some(q) : q \in SeqsUpTo(Items, MaxItems)}}
GatewayErr == [ok |-> FALSE, total |-> 0, data |-> None]
Results == Responses \cup {GatewayErr}

\* LIST_SUM_AMOUNT values the runs are configured with.
Thresholds == {18500}


\* ------------------------------------------------------------ state
VARIABLES
    pc,               \* where main is: "boot", "mint_ready", "pools_ready",
                      \* "mint_stored" (startup), "select" (awaiting a tick),
                      \* "s_first"/"s_page" (supply-check awaiting a response),
                      \* "b_first"/"b_page" (buy-check awaiting a response),
                      \* "exited" (main returned Err), "panicked"
    branch,           \* the select! branch entered last: "none", "supply", "buy"
    price_index,      \* let mut price_index
    list_sum_amount,  \* LIST_SUM_AMOUNT, read once at startup
    cur_floor_price,  \* timer2 branch local
    sum,              \* timer1 branch local
    pages,            \* branch local: the exclusive end of the page loop
    page,             \* loop variable of `for page in 1..pages` (0: before the loop)
    exit,             \* why main ended: "none", "gateway_err", "parse_err",
                      \* "unwrap_none", "todo_list", "todo_buy", "startup_err",
                      \* "storage_err"
    requested,        \* history: page arguments of the gateway calls of this tick
    first_total,      \* history: total of the first response of this tick (-1: none yet)
    seen,             \* history: the items the buy branch scanned last
    stop,             \* history: position in seen where the scan ended (0: ran through)
    bad_seen,         \* history: the item loop of this tick reached an item whose
                      \* amount (supply) or price (buy) does not parse
    failed,           \* history: the last gateway call returned Err
    absent,           \* history: the last response had no data field
    e2e,              \* history: every response of this tick was that of the
                      \* end-to-end feed (total 120; page sums 10000, 8000, 500)
    index_at_tick,    \* history: price_index when this tick was serviced
    advances,         \* history: number of executions of price_index += 1
    skipped,          \* history: the last response reported total == 0
    in_flight,        \* history: gateway calls issued and not yet resolved
    entered_at,       \* history: the time the branch was entered
    account_index,    \* let mut account_index
    accounts_mint,    \* BotServer.accounts_mint
    accounts_buy,     \* BotServer.accounts_buy
    args_accounts,    \* args.accounts, the --accounts option of this run
    now,              \* the clock, in seconds since the timers were created
    deadline1,        \* timer1: the nominal time of its next firing
    deadline2,        \* timer2: the nominal time of its next firing
    serviced1,        \* history: firings of timer1 serviced
    serviced2,        \* history: firings of timer2 serviced
    file_mint,        \* accounts-mint.txt
    file_buy,         \* accounts-buy.txt
    stored,           \* the account records of the database, in insertion order
    next_id,          \* number of accounts gen_accounts has produced so far
    runs,             \* history: process starts so far
    failed_runs,      \* history: starts that did not reach the loop
    generated,        \* history: per role, how often its accounts were generated
    first_set         \* history: per role, the accounts written to its file first

locals == <<branch, price_index, list_sum_amount, cur_floor_price, sum, pages,
            page, requested, first_total, seen, stop, bad_seen, failed,
            absent, e2e, index_at_tick, advances, skipped, in_flight,
            entered_at, account_index>>
loop_vars == <<pc, exit, locals>>
pool_vars == <<accounts_mint, accounts_buy, args_accounts>>
timer_vars == <<now, deadline1, deadline2, serviced1, serviced2>>
disk_vars == <<file_mint, file_buy, stored, next_id, runs, failed_runs, generated,
               first_set>>

vars == <<loop_vars, pool_vars, timer_vars, disk_vars>>

\* ------------------------------------------------------------ the code's decisions
\* A faulty variant: the emptiness test never answers yes.
IsEmptyNever(total) == total < 0

\* if list_res.total == 0
IsEmpty(total) == total = 0

\* let pages = list_res.total / 50 + 1;
PageCount(total) == (total \div PageSize) + 1

\* A faulty variant: a sum equal to the threshold counts as a deficit.
EnoughStrict(s, threshold) == s > threshold

\* if sum >= list_sum_amount { continue; }
Enough(s, threshold) == s >= threshold

\* A faulty variant: a price equal to the floor price is not bought.
EligibleStrict(price, floor) == price < floor

\* if price <= cur_floor_price
Eligible(price, floor) == price <= floor

\* floor_prices[price_index%floor_prices.len()]
ActiveIndex(idx) == idx % Len(floor_prices)
CurFloorPrice(idx) == floor_prices[ActiveIndex(idx) + 1]

\* A faulty variant: the index moves two positions.
AdvanceTwo(idx) == idx + 2

\* price_index += 1;
Advance(idx) == idx + 1

\* How control leaves a step.
Continue == [pc |-> "select", exit |-> "none"]
Await(where) == [pc |-> where, exit |-> "none"]
\* A faulty variant: the error is logged and the loop goes on.
Contain(kind) == [pc |-> "select", exit |-> kind]
\* the ? operator: main returns the error
Propagate(kind) == [pc |-> "exited", exit |-> kind]
\* todo!() and unwrap() of None
Panic(kind) == [pc |-> "panicked", exit |-> kind]

\* for item in list_res.data.unwrap() { sum += from_str::<u64>(&item.amount)?; }
RECURSIVE SumAmounts(_, _)
SumAmounts(items, acc) ==
    IF items = <<>> THEN [ok |-> TRUE, sum |-> acc]
    ELSE LET amount == FromStrU64(Head(items).amount)
         IN  IF ~amount.ok THEN [ok |-> FALSE, sum |-> acc]
             ELSE SumAmounts(Tail(items), acc + amount.val)

\* for i in 0..items.len() { let price = from_str::<u64>(&items[i].price)?;
\*                           if price <= cur_floor_price { todo!() } }
RECURSIVE ScanFirst(_, _, _)
ScanFirst(items, i, floor) ==
    IF i > Len(items) THEN [kind |-> "pass", at |-> 0]
    ELSE LET price == FromStrU64(items[i].price)
         IN  IF ~price.ok THEN [kind |-> "parse_err", at |-> i]
             ELSE IF Eligible(price.val, floor) THEN [kind |-> "todo", at |-> i]
             ELSE ScanFirst(items, i + 1, floor)

\* for i in 0..items.len() { todo!() }
ScanNext(items, floor) ==
    IF Len(items) > 0 THEN [kind |-> "todo", at |-> 1] ELSE [kind |-> "pass", at |-> 0]

\* The result of a step: control, the branch locals, the page to request next
\* (0: no call) and price_index.
Out(ctl, s, pgs, pg, rq, idx) ==
    [pc |-> ctl.pc, exit |-> ctl.exit, sum |-> s, pages |-> pgs, page |-> pg,
     req |-> rq, price_index |-> idx]

\* A faulty variant: the supply-check moves the rotation index when it ends.
SupplyLoopAdvancing(s, pgs, pg) ==
    IF pg + 1 < pgs
    THEN Out(Await("s_page"), s, pgs, pg + 1, pg + 1, price_index)
    ELSE IF Enough(s, list_sum_amount)
    THEN Out(Continue, s, pgs, pg, 0, Advance(price_index))
    ELSE Out(Panic("todo_list"), s, pgs, pg, 0, price_index)

\* timer1 branch from the head of `for page in 1..pages` (pg: the page done
\* last, 0 on entry) to the next await or to the threshold check.
SupplyLoop(s, pgs, pg) ==
    IF pg + 1 < pgs
    THEN Out(Await("s_page"), s, pgs, pg + 1, pg + 1, price_index)
    ELSE IF Enough(s, list_sum_amount)
    THEN Out(Continue, s, pgs, pg, 0, price_index)
    ELSE Out(Panic("todo_list"), s, pgs, pg, 0, price_index)

\* timer1 branch, from the first response to the next await.
SupplyFirstStep(res) ==
    IF ~res.ok THEN Out(Propagate("gateway_err"), sum, pages, page, 0, price_index)
    ELSE IF IsEmpty(res.total) THEN Out(Continue, sum, pages, page, 0, price_index)
    ELSE IF ~res.data.some THEN Out(Panic("unwrap_none"), 0, pages, page, 0, price_index)
    ELSE LET r == SumAmounts(res.data.items, 0)
         IN  IF ~r.ok THEN Out(Propagate("parse_err"), r.sum, pages, page, 0, price_index)
             ELSE SupplyLoop(r.sum, PageCount(res.total), 0)

\* A faulty variant: the data field is unwrapped before total is looked at.
SupplyPageStepUnwrapFirst(res) ==
    IF ~res.ok THEN Out(Propagate("gateway_err"), sum, pages, page, 0, price_index)
    ELSE IF ~res.data.some THEN Out(Panic("unwrap_none"), sum, pages, page, 0, price_index)
    ELSE IF IsEmpty(res.total) THEN SupplyLoop(sum, pages, page)
    ELSE LET r == SumAmounts(res.data.items, sum)
         IN  IF ~r.ok THEN Out(Propagate("parse_err"), r.sum, pages, page, 0, price_index)
             ELSE SupplyLoop(r.sum, pages, page)

\* timer1 branch, from a response inside the page loop to the next await.
SupplyPageStep(res) ==
    IF ~res.ok THEN Out(Propagate("gateway_err"), sum, pages, page, 0, price_index)
    ELSE IF IsEmpty(res.total) THEN SupplyLoop(sum, pages, page)
    ELSE IF ~res.data.some THEN Out(Panic("unwrap_none"), sum, pages, page, 0, price_index)
    ELSE LET r == SumAmounts(res.data.items, sum)
         IN  IF ~r.ok THEN Out(Propagate("parse_err"), r.sum, pages, page, 0, price_index)
             ELSE SupplyLoop(r.sum, pages, page)

\* timer2 branch from the head of `for page in 1..pages` to the next await or
\* to price_index += 1 at the end of the branch.
BuyLoop(pgs, pg) ==
    IF pg + 1 < pgs
    THEN Out(Await("b_page"), sum, pgs, pg + 1, pg + 1, price_index)
    ELSE Out(Continue, sum, pgs, pg, 0, Advance(price_index))

\* The scan of a response's items by the timer2 branch: none when the data
\* field is absent.
BuyScan(res, first) ==
    IF ~res.data.some THEN [kind |-> "pass", at |-> 0]
    ELSE IF first THEN ScanFirst(res.data.items, 1, cur_floor_price)
    ELSE ScanNext(res.data.items, cur_floor_price)

\* timer2 branch, from the first response to the next await.
BuyFirstStep(res) ==
    IF ~res.ok THEN Out(Propagate("gateway_err"), sum, pages, page, 0, price_index)
    ELSE IF IsEmpty(res.total) THEN Out(Continue, sum, pages, page, 0, price_index)
    ELSE LET pgs  == PageCount(res.total)
             scan == BuyScan(res, TRUE)
         IN  IF scan.kind = "parse_err"
             THEN Out(Propagate("parse_err"), sum, pgs, page, 0, price_index)
             ELSE IF scan.kind = "todo"
             THEN Out(Panic("todo_buy"), sum, pgs, page, 0, price_index)
             ELSE BuyLoop(pgs, 0)

\* A faulty variant: the end of the page loop follows the total of the
\* latest response.
BuyPageStepRecount(res) ==
    IF ~res.ok THEN Out(Propagate("gateway_err"), sum, pages, page, 0, price_index)
    ELSE IF IsEmpty(res.total) THEN BuyLoop(pages, page)
    ELSE IF BuyScan(res, FALSE).kind = "todo"
    THEN Out(Panic("todo_buy"), sum, pages, page, 0, price_index)
    ELSE BuyLoop(PageCount(res.total), page)

\* timer2 branch, from a response inside the page loop to the next await.
BuyPageStep(res) ==
    IF ~res.ok THEN Out(Propagate("gateway_err"), sum, pages, page, 0, price_index)
    ELSE IF IsEmpty(res.total) THEN BuyLoop(pages, page)
    ELSE IF BuyScan(res, FALSE).kind = "todo"
    THEN Out(Panic("todo_buy"), sum, pages, page, 0, price_index)
    ELSE BuyLoop(pages, page)

\* ------------------------------------------------------------ history
\* The field of an item the running branch reads.
Field(item) == IF branch = "supply" THEN item.amount ELSE item.price

\* The item loop over items, ending at position at (0: it ran through), came
\* to an item whose field does not parse.
ReachedBad(items, at) ==
    \E i \in 1..Len(items) :
        /\ (at = 0 \/ i <= at)
        /\ ~FromStrU64(Field(items[i])).ok

RECURSIVE AmountSum(_)
AmountSum(items) ==
    IF items = <<>> THEN 0
    ELSE FromStrU64(Head(items).amount).val + AmountSum(Tail(items))

\* The end-to-end feed of the specification: total 120 on every page, and
\* items whose amounts sum to 10000 on page 1, 8000 on page 2, 500 on page 3.
E2EPageSum(p) == CASE p = 1 -> 10000 [] p = 2 -> 8000 [] p = 3 -> 500 [] OTHER -> 0

IsE2EResponse(p, res) ==
    /\ res.ok
    /\ res.total = 120
    /\ res.data.some
    /\ \A i \in 1..Len(res.data.items) : FromStrU64(res.data.items[i].amount).ok
    /\ AmountSum(res.data.items) = E2EPageSum(p)

\* ------------------------------------------------------------ startup
Roles == {ACCOUNT_TYPE_MINT, ACCOUNT_TYPE_BUY}

\* A file of the working directory: missing, or its text (a sequence of tokens).
NoFile == [exists |-> FALSE, text |-> <<>>]
FileOf(text) == [exists |-> TRUE, text |-> text]

\* utils::gen_accounts(n): n accounts never produced before; id counts the
\* accounts produced so far.
gen_accounts(id, n) == [i \in 1..n |-> id + i]

\* The tokens of a JSON text: "[", "]", "," and an account.
Token(kind, id) == [kind |-> kind, id |-> id]
Punct(kind) == Token(kind, 0)
Acct(id) == Token("account", id)

\* serde_json::to_string_pretty(&accounts): "[", the accounts separated by
\* ",", "]".
RECURSIVE JoinAccounts(_)
JoinAccounts(accounts) ==
    IF accounts = <<>> THEN <<>>
    ELSE IF Len(accounts) = 1 THEN <<Acct(accounts[1])>>
    ELSE <<Acct(accounts[1]), Punct(",")>> \o JoinAccounts(Tail(accounts))

to_string_pretty(accounts) == <<Punct("[")>> \o JoinAccounts(accounts) \o <<Punct("]")>>

\* serde_json::from_str(&contents) of an account list: the text must be a
\* complete array.
from_str(text) ==
    LET n     == Len(text)
        inner == SubSeq(text, 2, n - 1)
        valid == /\ n >= 2
                 /\ text[1] = Punct("[")
                 /\ text[n] = Punct("]")
                 /\ (inner = <<>> \/ Len(inner) % 2 = 1)
                 /\ \A i \in 1..Len(inner) :
                        IF i % 2 = 0 THEN inner[i] = Punct(",")
                        ELSE inner[i].kind = "account"
    IN  [ok |-> valid,
         val |-> IF valid THEN [i \in 1..((Len(inner) + 1) \div 2) |-> inner[2 * i - 1].id]
                 ELSE <<>>]

\* What can go wrong in the provisioning of one role.
Faults == {"none", "read", "open", "gen", "create", "write_none", "write_part"}

\* A faulty variant: the generated accounts are used without being written.
ProvisionUnsaved(file, n, id, fault, then) ==
    IF file.exists
    THEN [ctl |-> Await(then), accounts |-> from_str(file.text).val, file |-> file,
          next_id |-> id, gen |-> 0]
    ELSE [ctl |-> Await(then), accounts |-> gen_accounts(id, n), file |-> file,
          next_id |-> id + n, gen |-> 1]

\* match File::open(ACCOUNT_..) { Ok(f) => read and parse,
\*                                Err(NotFound) => generate, create, write,
\*                                Err(e) => panic }
\* for a run started with --accounts n; then: where main goes on. gen: the
\* accounts were generated (1) or not (0).
Provision(file, n, id, fault, then) ==
    LET same == [accounts |-> <<>>, file |-> file, next_id |-> id, gen |-> 0]
    IN
    IF fault = "open" THEN [ctl |-> Panic("startup_err")] @@ same
    ELSE IF file.exists
    THEN LET parsed == from_str(file.text)
         IN  IF fault = "read" \/ ~parsed.ok
             THEN [ctl |-> Propagate("startup_err")] @@ same
             ELSE [ctl |-> Await(then), accounts |-> parsed.val, file |-> file,
                   next_id |-> id, gen |-> 0]
    ELSE LET accounts == gen_accounts(id, n)
             text     == to_string_pretty(accounts)
             made     == [accounts |-> <<>>, next_id |-> id + n, gen |-> 1]
         IN  IF fault = "gen"
             THEN [ctl |-> Propagate("startup_err")] @@ same
             ELSE IF fault = "create"
             THEN [ctl |-> Propagate("startup_err"), file |-> file] @@ made
             ELSE IF fault = "write_none"
             THEN [ctl |-> Propagate("startup_err"), file |-> FileOf(<<>>)] @@ made
             ELSE IF fault = "write_part"
             THEN [ctl |-> Propagate("startup_err"),
                   file |-> FileOf(SubSeq(text, 1, Len(text) - 1))] @@ made
             ELSE [ctl |-> Await(then), accounts |-> accounts, file |-> FileOf(text),
                   next_id |-> id + n, gen |-> 1]

\* Storage::insert_accounts(type, &accounts): idempotent, a record already
\* stored is not stored again.
RECURSIVE insert_accounts(_, _, _)
insert_accounts(db, type, accounts) ==
    IF accounts = <<>> THEN db
    ELSE LET rec == [type |-> type, account |-> Head(accounts)]
             has == \E i \in 1..Len(db) : db[i] = rec
         IN  insert_accounts(IF has THEN db ELSE Append(db, rec), type, Tail(accounts))

\* A faulty variant: both sets are stored as mint accounts.
InsertAsMint(db, type, accounts, fails, k, then) ==
    [ctl |-> IF fails THEN Propagate("storage_err") ELSE Await(then),
     db |-> db \o [i \in 1..(IF fails THEN k ELSE Len(accounts)) |->
                     [type |-> ACCOUNT_TYPE_MINT, account |-> accounts[i]]]]

\* self.storage.insert_accounts(type, &accounts).await?  When the call fails
\* the first k accounts may have been stored.
Insert(db, type, accounts, fails, k, then) ==
    IF fails
    THEN [ctl |-> Propagate("storage_err"),
          db |-> insert_accounts(db, type, SubSeq(accounts, 1, k))]
    ELSE [ctl |-> Await(then), db |-> insert_accounts(db, type, accounts)]

\* ------------------------------------------------------------ timers
\* Interval::tick() with the default MissedTickBehavior::Burst: the next
\* firing is one period after the nominal time of this one, however late
\* this one is serviced.
NextDeadline(deadline, t, period) == deadline + period

\* A faulty variant: a branch of select! is entered while another is suspended.
LoopFreeAlways == pc \notin {"exited", "panicked"}

\* loop { tokio::select! { ... } }: the timers are polled only between two
\* iterations of the loop.
LoopFree == pc = "select"

\* ------------------------------------------------------------ actions
\* let mut price_index = 1; let mut account_index = 0; and the history of a
\* loop that has not run yet.
LocalsInit ==
    /\ branch = "none"
    /\ price_index = InitPriceIndex
    /\ list_sum_amount \in Thresholds
    /\ cur_floor_price = 0
    /\ sum = 0
    /\ pages = 0
    /\ page = 0
    /\ requested = <<>>
    /\ first_total = -1
    /\ seen = <<>>
    /\ stop = 0
    /\ bad_seen = FALSE
    /\ failed = FALSE
    /\ absent = FALSE
    /\ e2e = TRUE
    /\ index_at_tick = InitPriceIndex
    /\ advances = 0
    /\ skipped = FALSE
    /\ in_flight = 0
    /\ entered_at = 0
    /\ account_index = 0

\* The state in which the loop is entered.
LoopInit ==
    /\ pc = "select"
    /\ exit = "none"
    /\ LocalsInit

\* let mut timer1 = time::interval(..); let mut timer2 = time::interval(..);
\* the first firing of an interval is due at once.
TimersInit ==
    /\ now = 0
    /\ deadline1 = 0
    /\ deadline2 = 0
    /\ serviced1 = 0
    /\ serviced2 = 0

\* The pools and the disk after a first start that generated MaxAccounts
\* accounts for each role.
ProvisionedInit ==
    LET mint == gen_accounts(0, MaxAccounts)
        buy  == gen_accounts(MaxAccounts, MaxAccounts)
    IN  /\ accounts_mint = mint
        /\ accounts_buy = buy
        /\ file_mint = FileOf(to_string_pretty(mint))
        /\ file_buy = FileOf(to_string_pretty(buy))
        /\ stored = insert_accounts(insert_accounts(<<>>, ACCOUNT_TYPE_MINT, mint),
                                    ACCOUNT_TYPE_BUY, buy)
        /\ args_accounts = MaxAccounts
        /\ next_id = 2 * MaxAccounts
        /\ runs = 1
        /\ failed_runs = 0
        /\ generated = [r \in Roles |-> 1]
        /\ first_set = (ACCOUNT_TYPE_MINT :> Some(mint)) @@ (ACCOUNT_TYPE_BUY :> Some(buy))

Init ==
    /\ LoopInit
    /\ TimersInit
    /\ ProvisionedInit

\* A branch of select! is entered and suspends in its first
\* get_token_list(&token, 1, 50).await; the locals of the previous iteration
\* are gone.
Enter(which, where, floor) ==
    /\ pc' = where
    /\ branch' = which
    /\ cur_floor_price' = floor
    /\ sum' = 0
    /\ pages' = 0
    /\ page' = 0
    /\ exit' = "none"
    /\ requested' = <<1>>
    /\ first_total' = -1
    /\ seen' = <<>>
    /\ stop' = 0
    /\ bad_seen' = FALSE
    /\ failed' = FALSE
    /\ absent' = FALSE
    /\ e2e' = TRUE
    /\ index_at_tick' = price_index
    /\ skipped' = FALSE
    /\ in_flight' = in_flight + 1
    /\ entered_at' = now
    /\ UNCHANGED <<price_index, list_sum_amount, advances, account_index>>
    /\ UNCHANGED <<pool_vars, disk_vars>>

\* _ = timer1.tick() => { let list_res = server.get_token_list(&token, 1, 50).await
Timer1Tick ==
    /\ LoopFree
    /\ Enter("supply", "s_first", 0)
    /\ UNCHANGED timer_vars

\* _ = timer2.tick() => { let cur_floor_price = ...; let list_res = ....await
Timer2Tick ==
    /\ LoopFree
    /\ price_index < MaxIndex
    /\ Enter("buy", "b_first", CurFloorPrice(price_index))
    /\ UNCHANGED timer_vars

\* The items of res a branch iterates over: none when the branch skips the
\* response (failure, total == 0) or the data field is absent.
Iterated(res) ==
    IF res.ok /\ ~IsEmpty(res.total) /\ res.data.some THEN res.data.items ELSE <<>>

NoScan == [kind |-> "pass", at |-> 0]

\* The suspended call resolves to res and the branch runs on to out.
Resume(res, out, first, scan) ==
    /\ pc' = out.pc
    /\ exit' = out.exit
    /\ sum' = out.sum
    /\ pages' = out.pages
    /\ page' = out.page
    /\ price_index' = out.price_index
    /\ advances' = IF out.price_index # price_index THEN advances + 1 ELSE advances
    /\ requested' = IF out.req # 0 THEN Append(requested, out.req) ELSE requested
    /\ first_total' = IF first THEN (IF res.ok THEN res.total ELSE -1) ELSE first_total
    /\ seen' = IF branch = "buy" THEN Iterated(res) ELSE <<>>
    /\ stop' = scan.at
    /\ bad_seen' = (bad_seen \/ ReachedBad(Iterated(res), scan.at))
    /\ failed' = ~res.ok
    /\ absent' = (res.ok /\ ~res.data.some)
    /\ e2e' = (e2e /\ IsE2EResponse(requested[Len(requested)], res))
    /\ skipped' = (res.ok /\ IsEmpty(res.total))
    /\ in_flight' = in_flight - 1 + (IF out.req # 0 THEN 1 ELSE 0)
    /\ UNCHANGED <<branch, list_sum_amount, cur_floor_price, index_at_tick,
                   entered_at, account_index>>
    /\ UNCHANGED <<pool_vars, timer_vars, disk_vars>>

SupplyFirst ==
    /\ pc = "s_first"
    /\ \E res \in Results : Resume(res, SupplyFirstStep(res), TRUE, NoScan)

SupplyPage ==
    /\ pc = "s_page"
    /\ \E res \in Results : Resume(res, SupplyPageStep(res), FALSE, NoScan)

BuyFirst ==
    /\ pc = "b_first"
    /\ \E res \in Results :
         Resume(res, BuyFirstStep(res), TRUE,
                IF Iterated(res) # <<>> THEN BuyScan(res, TRUE) ELSE NoScan)

BuyPage ==
    /\ pc = "b_page"
    /\ \E res \in Results :
         Resume(res, BuyPageStep(res), FALSE,
                IF Iterated(res) # <<>> THEN BuyScan(res, FALSE) ELSE NoScan)

Next ==
    \/ Timer1Tick
    \/ Timer2Tick
    \/ SupplyFirst
    \/ SupplyPage
    \/ BuyFirst
    \/ BuyPage

Spec == Init /\ [][Next]_vars

\* ------------------------------------------------------------ the loop in time
\* The responses the timed specification draws from: those without items.
TimedResults == {res \in Results : res.data.items = <<>>}

\* timer1.tick() completes: its nominal time has come and the loop is in
\* select!.
Timer1Fires ==
    /\ LoopFree
    /\ deadline1 <= now
    /\ Enter("supply", "s_first", 0)
    /\ deadline1' = NextDeadline(deadline1, now, Period1)
    /\ serviced1' = serviced1 + 1
    /\ UNCHANGED <<now, deadline2, serviced2>>

\* timer2.tick() completes.
Timer2Fires ==
    /\ LoopFree
    /\ deadline2 <= now
    /\ Enter("buy", "b_first", CurFloorPrice(price_index))
    /\ deadline2' = NextDeadline(deadline2, now, Period2)
    /\ serviced2' = serviced2 + 1
    /\ UNCHANGED <<now, deadline1, serviced1>>

\* Time passes while a call is in flight, or while the loop sits in select!
\* with neither timer due.
Idle == LoopFree /\ deadline1 > now /\ deadline2 > now
Suspended == pc \in {"s_first", "s_page", "b_first", "b_page"}

Pass ==
    /\ now < MaxTime
    /\ (IF Suspended THEN TRUE ELSE Idle)
    /\ now' = now + 1
    /\ UNCHANGED <<loop_vars, pool_vars, disk_vars>>
    /\ UNCHANGED <<deadline1, deadline2, serviced1, serviced2>>

TimedSupplyFirst ==
    /\ pc = "s_first"
    /\ \E res \in TimedResults : Resume(res, SupplyFirstStep(res), TRUE, NoScan)

TimedSupplyPage ==
    /\ pc = "s_page"
    /\ \E res \in TimedResults : Resume(res, SupplyPageStep(res), FALSE, NoScan)

TimedBuyFirst ==
    /\ pc = "b_first"
    /\ \E res \in TimedResults : Resume(res, BuyFirstStep(res), TRUE, NoScan)

TimedBuyPage ==
    /\ pc = "b_page"
    /\ \E res \in TimedResults : Resume(res, BuyPageStep(res), FALSE, NoScan)

TimedNext ==
    \/ Timer1Fires
    \/ Timer2Fires
    \/ Pass
    \/ TimedSupplyFirst
    \/ TimedSupplyPage
    \/ TimedBuyFirst
    \/ TimedBuyPage

SpecTimers == Init /\ [][TimedNext]_vars

\* ------------------------------------------------------------ startup and restarts
\* A process started for the first time in an empty working directory with
\* an empty database.
StartupInit ==
    /\ pc = "boot"
    /\ exit = "none"
    /\ LocalsInit
    /\ TimersInit
    /\ accounts_mint = <<>>
    /\ accounts_buy = <<>>
    /\ args_accounts \in 0..MaxAccounts
    /\ file_mint = NoFile
    /\ file_buy = NoFile
    /\ stored = <<>>
    /\ next_id = 0
    /\ runs = 1
    /\ failed_runs = 0
    /\ generated = [r \in Roles |-> 0]
    /\ first_set = [r \in Roles |-> None]

\* The set a provisioning step wrote in full to a file that did not exist,
\* when it is the first.
FirstSet(role, old, r) ==
    IF ~first_set[role].some /\ ~old.exists /\ r.file.exists /\ r.ctl.exit = "none"
    THEN [first_set EXCEPT ![role] = Some(from_str(r.file.text).val)]
    ELSE first_set

\* let accounts_mint: Vec<FraAccount> = match File::open(ACCOUNT_MINT) { .. };
ProvisionMint ==
    /\ pc = "boot"
    /\ \E fault \in Faults :
         LET r == Provision(file_mint, args_accounts, next_id, fault, "mint_ready")
         IN  /\ pc' = r.ctl.pc
             /\ exit' = r.ctl.exit
             /\ accounts_mint' = r.accounts
             /\ file_mint' = r.file
             /\ next_id' = r.next_id
             /\ generated' = [generated EXCEPT ![ACCOUNT_TYPE_MINT] = @ + r.gen]
             /\ first_set' = FirstSet(ACCOUNT_TYPE_MINT, file_mint, r)
    /\ UNCHANGED <<locals, timer_vars, accounts_buy, args_accounts, file_buy, stored,
                   runs, failed_runs>>

\* let accounts_buy: Vec<FraAccount> = match File::open(ACCOUNT_BUY) { .. };
ProvisionBuy ==
    /\ pc = "mint_ready"
    /\ \E fault \in Faults :
         LET r == Provision(file_buy, args_accounts, next_id, fault, "pools_ready")
         IN  /\ pc' = r.ctl.pc
             /\ exit' = r.ctl.exit
             /\ accounts_buy' = r.accounts
             /\ file_buy' = r.file
             /\ next_id' = r.next_id
             /\ generated' = [generated EXCEPT ![ACCOUNT_TYPE_BUY] = @ + r.gen]
             /\ first_set' = FirstSet(ACCOUNT_TYPE_BUY, file_buy, r)
    /\ UNCHANGED <<locals, timer_vars, accounts_mint, args_accounts, file_mint, stored,
                   runs, failed_runs>>

\* BotServer::new(..) and the first insert_accounts of prepare_accounts.
InsertMint ==
    /\ pc = "pools_ready"
    /\ \E fails \in BOOLEAN, k \in 0..Len(accounts_mint) :
         LET r == Insert(stored, ACCOUNT_TYPE_MINT, accounts_mint, fails, k, "mint_stored")
         IN  /\ pc' = r.ctl.pc
             /\ exit' = r.ctl.exit
             /\ stored' = r.db
    /\ UNCHANGED <<locals, timer_vars, pool_vars, file_mint, file_buy, next_id, runs,
                   failed_runs, generated, first_set>>

\* The second insert_accounts of prepare_accounts; the timers are created
\* and the loop is entered.
InsertBuy ==
    /\ pc = "mint_stored"
    /\ \E fails \in BOOLEAN, k \in 0..Len(accounts_buy) :
         LET r == Insert(stored, ACCOUNT_TYPE_BUY, accounts_buy, fails, k, "select")
         IN  /\ pc' = r.ctl.pc
             /\ exit' = r.ctl.exit
             /\ stored' = r.db
    /\ UNCHANGED <<locals, timer_vars, pool_vars, file_mint, file_buy, next_id, runs,
                   failed_runs, generated, first_set>>

\* The process ends, wherever it is, and is started again: the memory is
\* lost, the files and the database stay.
Restart ==
    /\ runs < MaxRuns
    /\ pc' = "boot"
    /\ exit' = "none"
    /\ accounts_mint' = <<>>
    /\ accounts_buy' = <<>>
    /\ args_accounts' \in 0..MaxAccounts
    /\ runs' = runs + 1
    /\ failed_runs' = failed_runs + (IF pc = "select" THEN 0 ELSE 1)
    /\ UNCHANGED <<locals, timer_vars, file_mint, file_buy, stored, next_id,
                   generated, first_set>>

StartupNext ==
    \/ ProvisionMint
    \/ ProvisionBuy
    \/ InsertMint
    \/ InsertBuy
    \/ Restart

SpecStartup == StartupInit /\ [][StartupNext]_vars

\* ------------------------------------------------------------ claims
Waiting == pc \in {"s_first", "s_page", "b_first", "b_page"}

\* Number of responses the branch of this tick has received.
Responded == Len(requested) - (IF Waiting THEN 1 ELSE 0)

\* A supply-check pass over a non-empty feed came to its threshold check.
SupplyPassDone ==
    /\ branch = "supply"
    /\ first_total > 0
    /\ (pc = "select" \/ exit = "todo_list")

CeilDiv(a, b) == (a + b - 1) \div b

TimesRequested(p) == Cardinality({i \in 1..Len(requested) : requested[i] = p})

\* C1: in a supply-check pass whose first page reports total T > 0, the pages
\* requested are exactly 1..ceil(T/50), each requested exactly once (T = 100:
\* pages 1 and 2 and nothing else).
C1_PagesExactlyOnce ==
    SupplyPassDone =>
        /\ \A i \in 1..Len(requested) : requested[i] \in 1..CeilDiv(first_total, PageSize)
        /\ \A p \in 1..CeilDiv(first_total, PageSize) : TimesRequested(p) = 1

\* C2: over the end-to-end feed (total 120; amounts summing to 10000 on page
\* 1, 8000 on page 2, 500 on page 3) a supply-check pass computes 18500.
C2_EndToEndTotal ==
    (SupplyPassDone /\ e2e) => sum = 18500

\* C3: a supply-check pass that did not fail reaches the add-listings action
\* if and only if its sum is strictly below LIST_SUM_AMOUNT; otherwise the
\* tick ends with no action and the loop awaits the next tick.
C3_DeficitIffBelow ==
    SupplyPassDone =>
        /\ (exit = "todo_list") = (sum < list_sum_amount)
        /\ (sum >= list_sum_amount => pc = "select" /\ exit = "none")
        /\ (sum < list_sum_amount => pc = "panicked")

C3_Witness ==
    /\ SupplyPassDone
    /\ Len(requested) = 3
    /\ sum > 0
    /\ sum < list_sum_amount
    /\ exit = "todo_list"

\* C4: in either branch a first response with total == 0 ends the tick after
\* that one gateway call, with no buy or list action and no crash, also when
\* the data field is absent; the loop is back at select!.
C4_EmptyFirstPage ==
    first_total = 0 =>
        /\ pc = "select"
        /\ exit = "none"
        /\ requested = <<1>>
        /\ seen = <<>>
        /\ sum = 0

C4_Witness ==
    /\ first_total = 0
    /\ absent
    /\ branch = "buy"
    /\ pc = "select"

\* C5: the active floor-price index is a valid offset into the 6-entry
\* schedule, and after k advances from the start index 1 it is (1 + k) mod 6;
\* the threshold of a buy-check tick is the schedule entry at that offset.
C5_ActiveIndex ==
    /\ ActiveIndex(price_index) \in 0..(Len(floor_prices) - 1)
    /\ ActiveIndex(price_index) = (InitPriceIndex + advances) % 6
    /\ (branch = "buy" => cur_floor_price = floor_prices[(index_at_tick % 6) + 1])

C5_Witness ==
    /\ advances = 5
    /\ ActiveIndex(price_index) = 0
    /\ branch = "buy"
    /\ pc = "b_first"
    /\ cur_floor_price = 123000000

\* C6: every buy-check tick that returns control to the loop has advanced
\* price_index by exactly one, a tick whose first page reports total == 0
\* included.
C6_AdvanceEveryBuyTick ==
    [][(branch = "buy" /\ Waiting /\ pc' = "select") => price_index' = price_index + 1]_vars

\* The item at which the scan of seen ended parses to a price at or below
\* the threshold of this tick.
StoppedAtEligible ==
    /\ stop > 0
    /\ FromStrU64(seen[stop].price).ok
    /\ FromStrU64(seen[stop].price).val <= cur_floor_price

\* Every item of seen the scan went past parses to a price above the threshold.
PassedAbove ==
    \A i \in 1..Len(seen) :
        (stop = 0 \/ i < stop) =>
            /\ FromStrU64(seen[i].price).ok
            /\ FromStrU64(seen[i].price).val > cur_floor_price

\* C7: on a buy-check tick the threshold is the schedule entry at the current
\* rotation index, and an item of page 1 reaches the buy action if and only
\* if its price is at or below that threshold (at index 1: 200000000 is
\* bought, 300000000 is not).
C7_FirstPageEligibility ==
    (branch = "buy" /\ Responded = 1 /\ ~failed) =>
        /\ cur_floor_price = floor_prices[(index_at_tick % 6) + 1]
        /\ PassedAbove
        /\ (exit = "todo_buy") = StoppedAtEligible

C7_Witness ==
    /\ branch = "buy"
    /\ Responded = 1
    /\ index_at_tick = 1
    /\ cur_floor_price = 250000000
    /\ Len(seen) = 2
    /\ seen[1].price = <<"3","0","0","0","0","0","0","0","0">>
    /\ seen[2].price = <<"2","0","0","0","0","0","0","0","0">>
    /\ stop = 2
    /\ exit = "todo_buy"

\* C8: an item of a page after the first (its price an unsigned integer)
\* reaches the buy action if and only if its price is at or below the
\* threshold; one priced above it causes no action.
C8_LaterPagesSameRule ==
    (branch = "buy" /\ Responded > 1 /\ ~failed /\ ~bad_seen) =>
        /\ PassedAbove
        /\ (exit = "todo_buy") = StoppedAtEligible

\* C9: when the item loop of a tick comes to an amount (supply-check) or a
\* price (buy-check) that is no unsigned integer, the tick fails with a parse
\* error: no threshold decision, no action, price_index not advanced, and
\* the loop ends.
C9_ParseStrict ==
    (bad_seen /\ ~Waiting) =>
        /\ exit = "parse_err"
        /\ pc = "exited"
        /\ price_index = index_at_tick

\* C10: a failed gateway call, first page or later, in either branch, ends
\* the loop: no action is taken, price_index keeps the value it had before
\* the tick, and nothing happens afterwards (no call, no tick).
C10_GatewayFailureFatal ==
    /\ [](failed => /\ pc = "exited"
                    /\ exit = "gateway_err"
                    /\ price_index = index_at_tick)
    /\ [][~failed]_vars

C10_Witness ==
    /\ failed
    /\ branch = "buy"
    /\ Len(requested) = 3
    /\ pc = "exited"

\* A firing of timer1 (timer2) is serviced in this step.
Serviced1 == serviced1' # serviced1
Serviced2 == serviced2' # serviced2

\* C11: at most one branch is in progress and at most one gateway call is in
\* flight; a firing of either timer is serviced only when no branch is in
\* progress, so a branch that has started runs to its end first.
C11_MutualExclusion ==
    /\ [](in_flight <= 1 /\ (Suspended => in_flight = 1))
    /\ [][(Serviced1 \/ Serviced2) => (pc = "select" /\ in_flight = 0)]_vars

C11_Witness ==
    /\ branch = "buy"
    /\ pc = "b_page"
    /\ in_flight = 1
    /\ entered_at < deadline1
    /\ deadline1 <= now
    /\ entered_at < deadline2
    /\ deadline2 <= now

\* C12: a firing that fell due while the branch of its own timer was still
\* running is dropped, not queued: once the loop services that timer again,
\* no further firing of it is already overdue (no back-to-back catch-up).
C12_MissedFiringsDropped ==
    [][/\ (Serviced1 /\ branch = "supply" /\ entered_at < deadline1) => deadline1' >= now
       /\ (Serviced2 /\ branch = "buy" /\ entered_at < deadline2) => deadline2' >= now]_vars

\* C13: when the loop becomes free with both timers due, the one whose
\* nominal firing time elapsed strictly earlier (both while the branch was
\* running) is serviced first.
C13_EarlierFiringFirst ==
    [][/\ (Serviced1 /\ deadline1 <= now /\ entered_at < deadline2)
              => ~(deadline2 < deadline1)
       /\ (Serviced2 /\ deadline2 <= now /\ entered_at < deadline1)
              => ~(deadline1 < deadline2)]_vars

\* Startup helpers: the pool, the file and the record count of a role, and
\* whether the run has handed the role's pool on.
Pool(role) == IF role = ACCOUNT_TYPE_MINT THEN accounts_mint ELSE accounts_buy
FileOfRole(role) == IF role = ACCOUNT_TYPE_MINT THEN file_mint ELSE file_buy
InUse(role) ==
    IF role = ACCOUNT_TYPE_MINT
    THEN pc \in {"mint_ready", "pools_ready", "mint_stored", "select"}
    ELSE pc \in {"pools_ready", "mint_stored", "select"}
Records(role) == Cardinality({i \in 1..Len(stored) : stored[i].type = role})
NoDuplicates == \A i, j \in 1..Len(stored) : stored[i] = stored[j] => i = j

\* C14: for each role, a pool handed on by the startup is the content of the
\* role's file, and it is the set written there first; as long as every
\* start so far was successful, the role's accounts were generated at most
\* once.
C14_ProvisionOnce ==
    \A role \in Roles :
        /\ failed_runs = 0 /\ exit = "none" => generated[role] <= 1
        /\ InUse(role) =>
              /\ FileOfRole(role).exists
              /\ from_str(FileOfRole(role).text) = [ok |-> TRUE, val |-> Pool(role)]
              /\ first_set[role] = Some(Pool(role))

\* A third successful start is in the loop with the pools of the first.
C14_Witness ==
    /\ runs = MaxRuns
    /\ failed_runs = 0
    /\ pc = "select"
    /\ Len(accounts_mint) = MaxAccounts
    /\ accounts_buy # <<>>
    /\ generated = [r \in Roles |-> 1]

Placeholders == {"todo_list", "todo_buy"}

\* C16: when a supply-check detects a deficit or a buy-check finds an
\* eligible item, the process has panicked: no call of the tick is
\* outstanding, the rotation index is the one the tick started with, and no
\* step of the loop (no further call, no tick of either timer) is ever taken
\* again.
C16_PlaceholderHalts ==
    /\ [](exit \in Placeholders =>
            /\ pc = "panicked"
            /\ in_flight = 0
            /\ price_index = index_at_tick)
    /\ [][exit \notin Placeholders]_vars

\* The buy-check halted on the first of three pages.
C16_Witness == exit = "todo_buy" /\ pages = 3 /\ requested = <<1>> /\ pc = "panicked"

\* C17, as claimed: a response without a data field never ends a tick
\* abnormally; the tick goes on as for a page with no items.
C17_AbsentNeverFatal == absent => exit \in {"none", "todo_list"}

\* C17, amended: a response without a data field is a page with no items in
\* the buy-check, whatever its total, and in the supply-check when its total
\* is 0; in the supply-check a response with total > 0 and no data field
\* panics (unwrap of None), and nothing else does.
C17_AbsentTolerance ==
    /\ (exit = "unwrap_none") = (absent /\ branch = "supply" /\ ~skipped)
    /\ absent /\ branch = "buy" => seen = <<>> /\ stop = 0 /\ exit = "none"
    /\ absent /\ branch = "supply" /\ skipped => exit \in {"none", "todo_list"}

\* The buy-check went past a later page with total > 0 and no data field.
C17_Witness ==
    /\ absent
    /\ ~skipped
    /\ branch = "buy"
    /\ Responded = 2
    /\ pc = "b_page"

\* C18: the pages a tick requests are 1, then 1, 2, .. up to the page count
\* of the first response's total less one, whatever the later responses
\* report; a tick that came back to select! has requested all of them, and a
\* later response with total == 0 ends nothing.
C18_PagesFromFirstTotal ==
    /\ \A i \in 1..Len(requested) : requested[i] = (IF i = 1 THEN 1 ELSE i - 1)
    /\ first_total <= 0 => Len(requested) <= 1
    /\ first_total > 0 => Len(requested) <= PageCount(first_total)
    /\ pc \in {"s_page", "b_page"} => pages = PageCount(first_total)
    /\ pc = "select" /\ first_total > 0 =>
          /\ pages = PageCount(first_total)
          /\ Len(requested) = PageCount(first_total)
    /\ skipped /\ Responded >= 2 => exit \in {"none", "todo_list"} /\ seen = <<>>

\* A buy-check whose first response reported 120 and whose last reported 0
\* has requested all its pages.
C18_Witness ==
    /\ pc = "select"
    /\ branch = "buy"
    /\ first_total = 120
    /\ skipped
    /\ requested = <<1, 1, 2>>

\* C19: no step of a supply-check changes price_index; price_index changes
\* only in the step that ends a buy-check and then by one; account_index
\* and the two pools are changed by no step.
C19_SingleWriter ==
    [][/\ branch' = "supply" => price_index' = price_index
       /\ price_index' # price_index =>
             /\ branch = "buy"
             /\ pc \in {"b_first", "b_page"}
             /\ pc' = "select"
             /\ price_index' = price_index + 1
       /\ account_index' = account_index
       /\ accounts_mint' = accounts_mint
       /\ accounts_buy' = accounts_buy]_vars

\* A supply-check that followed an advancing buy-check has come to its end.
C19_Witness ==
    /\ branch = "supply"
    /\ pc = "select"
    /\ Responded >= 2
    /\ advances = 1
    /\ price_index = InitPriceIndex + 1

====
